---- MODULE Spec2Model ----
(***************************************************************************)
(* Paper-trading ledger of the ProTrade terminal (src/app.py).             *)
(*                                                                         *)
(* Money is held in the source as Python floats that are rounded to two    *)
(* decimals at every step.  Here every amount is an integer number of      *)
(* mills (tenths of a cent), so that an amount which is not a whole number *)
(* of cents can be told from one that is.  round(x, 2) lands on the        *)
(* nearest cent, a multiple of 10 mills; when x is printed exactly halfway *)
(* between two cents the direction is decided by the binary double behind  *)
(* x (round(100.005, 2) is 100.0, round(55.005, 2) is 55.01), so a halfway *)
(* case yields either neighbour.                                           *)
(*                                                                         *)
(* The "Date" field of a logged transaction (datetime.now()) is not        *)
(* modelled; the order of the sequence stands for it.                      *)
(*                                                                         *)
(* Two specifications share the ledger.  Spec drives execute_trade and the *)
(* reset with any quote, as the ledger's contract allows, and does not     *)
(* observe the screen.  RenderSpec is the script itself: every step is one *)
(* run of src/app.py from top to bottom, triggered by a widget, with the   *)
(* market data provider answering as it pleases.                           *)
(***************************************************************************)
EXTENDS Integers, Sequences, FiniteSets

\* ---------------------------------------------------------------- bounds
\* longest transaction log explored between two resets
MaxTx == 3

\* longest transaction log explored by the script runs of RenderSpec
MaxRenderTx == 2

\* tickers the user types into the sidebar (upper-cased, line 60)
Symbols == {"AAPL", "MSFT"}

\* quoted closes in mills: 50.00, 60.005, 100.00, 200.00, 20000.00
Quotes == {50000, 60005, 100000, 200000, 20000000}

\* quantities offered by the trade panel (st.number_input 1..10000)
MinQty == 1
MaxQty == 10000
Quantities == {q \in {5, 10} : MinQty <= q /\ q <= MaxQty}

\* last closes the chart series can end on, in mills: 50.00, 60.00
ChartQuotes == {50000, 60000}

\* last closes the batch download of the held tickers can end on: 70.00
BatchQuotes == {70000}

\* ----------------------------------------------------------------- state
VARIABLES balance, portfolio, transactions, call, notice, feed, view

vars == <<balance, portfolio, transactions, call, notice, feed, view>>

\* what the provider answered in the last script run, and what that run
\* put on the screen
display == <<feed, view>>

\* st.session_state.balance = 100000.00, in mills
StartingBalance == 100000000

\* st.session_state.portfolio = {}
EmptyPortfolio == [s \in {} |-> [qty |-> 0, avg_price |-> 0]]

\* ------------------------------------------------------------- rounding
\* mills in one cent
Cent == 10

\* an amount kept as computed, its rounding left out
Round2None (mills) == {mills}

\* round(x, 2) of an amount in mills: the whole cents it can land on
Round2 (mills) ==
    LET lo == mills \div Cent
        r  == mills % Cent
    IN  IF 2 * r < Cent THEN {Cent * lo}
        ELSE IF 2 * r > Cent THEN {Cent * (lo + 1)}
        ELSE {Cent * lo, Cent * (lo + 1)}

\* round(num / den, 2) for num mills shared over den units
Round2Div (num, den) ==
    LET lo == num \div (Cent * den)
        r2 == 2 * (num % (Cent * den))
    IN  IF r2 < Cent * den THEN {Cent * lo}
        ELSE IF r2 > Cent * den THEN {Cent * (lo + 1)}
        ELSE {Cent * lo, Cent * (lo + 1)}

\* cost = round(price * qty, 2)
Cost (price, qty) == Round2(price * qty)

\* ----------------------------------------------------------- execute_trade
\* a check that the account holds cash at all, not enough cash
HasFundsAnyCash (cost) == balance > 0

\* a check that refuses the order that would use up the whole balance
HasFundsStrict (cost) == balance > cost

\* if st.session_state.balance >= cost
HasFunds (cost) == balance >= cost

\* a check that the symbol is held, whatever the quantity asked
HasSharesAnyQty (symbol, qty) == symbol \in DOMAIN portfolio

\* a check that refuses the order that would sell the whole position
HasSharesStrict (symbol, qty) ==
    symbol \in DOMAIN portfolio /\ portfolio[symbol].qty > qty

\* if symbol in portfolio and portfolio[symbol]['qty'] >= qty
HasShares (symbol, qty) ==
    symbol \in DOMAIN portfolio /\ portfolio[symbol].qty >= qty

\* the plain mean of the old average and the fill price, weights ignored
NewAvgUnweighted (old_avg, old_qty, cost, qty) ==
    Round2Div(old_avg + cost \div qty, 2)

\* the new total cost shared over the shares held before the fill only
NewAvgByOldQty (old_avg, old_qty, cost, qty) ==
    Round2Div(old_avg * old_qty + cost, old_qty)

\* new_avg = ((old_avg * old_qty) + cost) / (old_qty + qty), rounded
NewAvg (old_avg, old_qty, cost, qty) ==
    Round2Div(old_avg * old_qty + cost, old_qty + qty)

\* a BUY that overwrites the held quantity instead of adding to it
BuyPortfolioOverwrite (symbol, price, qty, avg) ==
    IF symbol \in DOMAIN portfolio
    THEN [portfolio EXCEPT ![symbol] = [qty |-> qty, avg_price |-> avg]]
    ELSE [s \in DOMAIN portfolio \cup {symbol} |->
              IF s = symbol THEN [qty |-> qty, avg_price |-> price]
              ELSE portfolio[s]]

\* the portfolio after a filled BUY that settles on average price avg
BuyPortfolio (symbol, price, qty, avg) ==
    IF symbol \in DOMAIN portfolio
    THEN [portfolio EXCEPT ![symbol] =
              [qty |-> portfolio[symbol].qty + qty, avg_price |-> avg]]
    ELSE [s \in DOMAIN portfolio \cup {symbol} |->
              IF s = symbol THEN [qty |-> qty, avg_price |-> price]
              ELSE portfolio[s]]

\* a SELL that spreads the old cost over the shares that remain
SellPortfolioRebased (symbol, qty) ==
    LET old  == portfolio[symbol]
        left == old.qty - qty
    IN  IF left = 0
        THEN [s \in DOMAIN portfolio \ {symbol} |-> portfolio[s]]
        ELSE [portfolio EXCEPT ![symbol] =
                  [qty |-> left,
                   avg_price |-> (old.avg_price * old.qty) \div left]]

\* a SELL that leaves the emptied position in the map
SellPortfolioKeepZero (symbol, qty) ==
    [portfolio EXCEPT ![symbol].qty = portfolio[symbol].qty - qty]

\* the portfolio after a filled SELL
SellPortfolio (symbol, qty) ==
    LET left == portfolio[symbol].qty - qty
    IN  IF left = 0
        THEN [s \in DOMAIN portfolio \ {symbol} |-> portfolio[s]]
        ELSE [portfolio EXCEPT ![symbol].qty = left]

\* a BUY logged with the sign of its total forgotten
BuyTxUnsigned (symbol, price, qty, cost) ==
    [Type |-> "BUY", Symbol |-> symbol, Price |-> price, Qty |-> qty,
     Total |-> cost]

BuyTx (symbol, price, qty, cost) ==
    [Type |-> "BUY", Symbol |-> symbol, Price |-> price, Qty |-> qty,
     Total |-> 0 - cost]

\* a SELL logged with the unit price where the revenue belongs
SellTxUnitTotal (symbol, price, qty, cost) ==
    [Type |-> "SELL", Symbol |-> symbol, Price |-> price, Qty |-> qty,
     Total |-> price]

SellTx (symbol, price, qty, cost) ==
    [Type |-> "SELL", Symbol |-> symbol, Price |-> price, Qty |-> qty,
     Total |-> cost]

\* a refusal that still writes the refused order into the log
RejectedLogged (reason) ==
    /\ notice' = reason
    /\ transactions' = Append(transactions,
           [Type |-> reason, Symbol |-> "", Price |-> 0, Qty |-> 0,
            Total |-> 0])
    /\ UNCHANGED <<balance, portfolio>>

\* st.error(...): the trade is refused and the account is left alone
Rejected (reason) ==
    /\ notice' = reason
    /\ UNCHANGED <<balance, portfolio, transactions>>

Buy (symbol, price, qty) ==
    \E cost \in Cost(price, qty) :
        IF HasFunds(cost)
        THEN /\ balance' \in Round2(balance - cost)
             /\ \E avg \in (IF symbol \in DOMAIN portfolio
                            THEN NewAvg(portfolio[symbol].avg_price,
                                        portfolio[symbol].qty, cost, qty)
                            ELSE {price}) :
                    portfolio' = BuyPortfolio(symbol, price, qty, avg)
             /\ transactions' =
                    Append(transactions, BuyTx(symbol, price, qty, cost))
             /\ notice' = "Success"
        ELSE Rejected("InsufficientFunds")

Sell (symbol, price, qty) ==
    \E cost \in Cost(price, qty) :
        IF HasShares(symbol, qty)
        THEN /\ balance' \in Round2(balance + cost)
             /\ portfolio' = SellPortfolio(symbol, qty)
             /\ transactions' =
                    Append(transactions, SellTx(symbol, price, qty, cost))
             /\ notice' = "Success"
        ELSE Rejected("InsufficientShares")

\* execute_trade(action, symbol, quote, qty); call keeps the arguments as
\* they stand after line 108 (price rounded) next to the quote passed in
execute_trade (action, symbol, quote, qty) ==
    \E price \in Round2(quote) :
          /\ call' = [action |-> action, symbol |-> symbol, quote |-> quote,
                      price |-> price, qty |-> qty]
          /\ IF action = "BUY" THEN Buy(symbol, price, qty)
             ELSE Sell(symbol, price, qty)

NoCall == [action |-> "NONE", symbol |-> "", quote |-> 0, price |-> 0,
           qty |-> 0]

ResetCall == [NoCall EXCEPT !.action = "RESET"]

\* execute_trade("BUY", ...) called with any symbol, quote and quantity
PressBuy ==
    /\ Len(transactions) < MaxTx
    /\ \E s \in Symbols, p \in Quotes, q \in Quantities :
           execute_trade("BUY", s, p, q)
    /\ UNCHANGED display

\* execute_trade("SELL", ...) called with any symbol, quote and quantity
PressSell ==
    /\ Len(transactions) < MaxTx
    /\ \E s \in Symbols, p \in Quotes, q \in Quantities :
           execute_trade("SELL", s, p, q)
    /\ UNCHANGED display

\* a reset that forgets to clear the transaction log
ResetAccountKeepLog ==
    /\ balance' = StartingBalance
    /\ portfolio' = EmptyPortfolio
    /\ call' = ResetCall
    /\ notice' = "None"
    /\ UNCHANGED transactions

\* the Reset Account button: what it does to the account
ResetAccount ==
    /\ balance' = StartingBalance
    /\ portfolio' = EmptyPortfolio
    /\ transactions' = << >>
    /\ call' = ResetCall
    /\ notice' = "None"

\* no symbol priced, no row drawn
NoPrices == [s \in {} |-> 0]

NoRows == [s \in {} |-> [Symbol |-> s]]

\* before the first run of the script: nothing fetched, nothing drawn
NoFeed == [ticker |-> "", chartOK |-> FALSE, close |-> 0,
           batchOK |-> FALSE, prices |-> NoPrices]

NoView == [event |-> "None", cash |-> 0, panel |-> FALSE, messages |-> {},
           valuation |-> "NotRendered", rows |-> NoRows, net_worth |-> 0,
           history |-> << >>]

\* the reset on its own, the screen not observed
PressReset == ResetAccount /\ UNCHANGED display

Init ==
    /\ balance = StartingBalance
    /\ portfolio = EmptyPortfolio
    /\ transactions = << >>
    /\ call = NoCall
    /\ notice = "None"
    /\ feed = NoFeed
    /\ view = NoView

Next == PressBuy \/ PressSell \/ PressReset

Spec == Init /\ [][Next]_vars

\* ------------------------------------------------------------ script run
\* get_data(...) and latest_close = round(Close, 2): the series is empty,
\* or it ends on a close
ChartOutcomes ==
    {[ok |-> FALSE, close |-> 0]}
       \cup {[ok |-> TRUE, close |-> c] :
                c \in UNION {Round2(q) : q \in ChartQuotes}}

\* yf.download(portfolio_tickers, ...)['Close'] with the last close of each
\* column rounded: the download raises, or it delivers the columns of some
\* of the held tickers and drops the others
BatchOutcomes (held) ==
    IF held = {} THEN {[ok |-> FALSE, prices |-> NoPrices]}
    ELSE {[ok |-> FALSE, prices |-> NoPrices]}
            \cup {[ok |-> TRUE, prices |-> f] :
                     f \in UNION {[D -> UNION {Round2(q) : q \in BatchQuotes}]
                                     : D \in SUBSET held}}

\* live_prices as lines 230-249 fill it: nothing when the download raised,
\* else the delivered close, or the average price for a dropped ticker
LivePrices (pf, batch) ==
    IF batch.ok
    THEN [t \in DOMAIN pf |->
             IF t \in DOMAIN batch.prices THEN batch.prices[t]
             ELSE pf[t].avg_price]
    ELSE NoPrices

\* current_price of a table row, lines 257-258
CurrentPrice (pf, sym, ticker, close, batch) ==
    LET live == LivePrices(pf, batch)
        got  == IF sym \in DOMAIN live THEN live[sym] ELSE pf[sym].avg_price
    IN  IF sym = ticker THEN close ELSE got

\* the rows one held symbol can be drawn as, lines 260-275
RowsOf (pf, sym, cur) ==
    UNION {{[Symbol |-> sym, Qty |-> pf[sym].qty,
             AvgCost |-> pf[sym].avg_price, CurrentPrice |-> cur,
             MarketValue |-> mv, PL |-> pl] :
               pl \in Round2(mv - pf[sym].avg_price * pf[sym].qty)} :
              mv \in Round2(cur * pf[sym].qty)}

RECURSIVE SumMarketValue(_, _)
\* total_equity += market_val, over the rows of the symbols in syms
SumMarketValue (rows, syms) ==
    IF syms = {} THEN 0
    ELSE LET s == CHOOSE x \in syms : TRUE
         IN  rows[s].MarketValue + SumMarketValue(rows, syms \ {s})

\* a net worth that leaves the cash out
NetWorthEquityOnly (bal, total_equity) == Round2(total_equity)

\* net_worth = round(balance + total_equity, 2)
NetWorth (bal, total_equity) == Round2(bal + total_equity)

\* the Portfolio tab, lines 221-284: the empty-portfolio note, the table
\* with the net worth, or the NameError of line 258 when the selected
\* ticker is held and no chart series came back (latest_close is assigned
\* on line 169 only)
Valuation (bal, pf, ticker, chart, batch) ==
    IF DOMAIN pf = {}
    THEN {[valuation |-> "Empty", rows |-> NoRows, net_worth |-> 0]}
    ELSE IF ticker \in DOMAIN pf /\ ~chart.ok
    THEN {[valuation |-> "Error", rows |-> NoRows, net_worth |-> 0]}
    ELSE LET cur(s) == CurrentPrice(pf, s, ticker, chart.close, batch)
             all    == UNION {RowsOf(pf, s, cur(s)) : s \in DOMAIN pf}
             tables == {t \in [DOMAIN pf -> all] :
                           \A s \in DOMAIN pf : t[s] \in RowsOf(pf, s, cur(s))}
         IN  UNION {{[valuation |-> "Table", rows |-> t, net_worth |-> n] :
                        n \in NetWorth(bal, SumMarketValue(t, DOMAIN pf))} :
                       t \in tables}

RECURSIVE Reverse(_)
Reverse (seq) ==
    IF seq = << >> THEN << >>
    ELSE <<seq[Len(seq)]>> \o Reverse(SubSeq(seq, 1, Len(seq) - 1))

\* the History tab, lines 286-289: the log, newest first
History (log) == Reverse(log)

\* a trade panel drawn whether or not a chart series came back
PanelOfferedAlways (chart) == TRUE

\* if not df.empty: the trade panel is drawn below the chart
PanelOffered (chart) == chart.ok

\* the rest of a script run once its trigger is dealt with: cash is what the
\* sidebar metric of line 67 printed; the tabs are drawn from the account
\* as the run leaves it; a NameError ends the run before the History tab
Draw (event, cash, ticker, chart) ==
    \E batch \in BatchOutcomes(DOMAIN portfolio') :
       /\ feed' = [ticker |-> ticker, chartOK |-> chart.ok,
                   close |-> chart.close, batchOK |-> batch.ok,
                   prices |-> batch.prices]
       /\ \E v \in Valuation(balance', portfolio', ticker, chart, batch) :
             view' = [event |-> event, cash |-> cash,
                      panel |-> PanelOffered(chart),
                      messages |->
                         (IF chart.ok THEN {} ELSE {"DataUnavailable"})
                            \cup (IF v.valuation = "Empty"
                                  THEN {"PortfolioEmpty"} ELSE {}),
                      valuation |-> v.valuation, rows |-> v.rows,
                      net_worth |-> v.net_worth,
                      history |-> IF v.valuation = "Error" THEN << >>
                                  ELSE History(transactions')]

\* no button of the trade panel ran execute_trade in this run
NoTrade ==
    /\ UNCHANGED <<balance, portfolio, transactions>>
    /\ call' = NoCall
    /\ notice' = "None"

\* a run with one of the two trade buttons pressed: the button is reached,
\* and execute_trade called on the selected ticker at latest_close, only
\* when this run draws the panel
RunTrade (action) ==
    /\ Len(transactions) < MaxRenderTx
    /\ \E chart \in ChartOutcomes, qty \in Quantities :
          /\ IF PanelOffered(chart)
             THEN execute_trade(action, feed.ticker, chart.close, qty)
             ELSE NoTrade
          /\ Draw(action, balance, feed.ticker, chart)

\* a run triggered by anything but a button: session start, a new ticker,
\* period or interval, a new quantity
RunRefresh ==
    \E ticker \in Symbols, chart \in ChartOutcomes :
       /\ NoTrade
       /\ Draw("Refresh", balance, ticker, chart)

\* the BUY button, pressed on a screen that shows it
RunBuy ==
    /\ view.panel
    /\ RunTrade("BUY")

\* the SELL button, pressed on a screen that shows it
RunSell ==
    /\ view.panel
    /\ RunTrade("SELL")

\* the Reset Account button: the account is reset and st.rerun() starts the
\* script again, which then runs to its end
RunReset ==
    /\ view.valuation # "NotRendered"
    /\ ResetAccount
    /\ \E chart \in ChartOutcomes :
          Draw("RESET", balance', feed.ticker, chart)

RenderNext == RunRefresh \/ RunBuy \/ RunSell \/ RunReset

RenderSpec == Init /\ [][RenderNext]_vars

TypeOK ==
    /\ balance \in Int
    /\ DOMAIN portfolio \subseteq Symbols
    /\ \A s \in DOMAIN portfolio :
          portfolio[s].qty \in Int /\ portfolio[s].avg_price \in Int
    /\ Len(transactions) <= MaxTx
    /\ notice \in {"None", "Success", "InsufficientFunds",
                   "InsufficientShares"}

\* ------------------------------------------------------------ properties
Errors == {"InsufficientFunds", "InsufficientShares"}

\* the step just taken was an execute_trade call (its arguments are call')
TradeStep == call'.action \in {"BUY", "SELL"}

\* C1. Funds invariant: whatever trades and resets have happened, the cash
\* balance is never negative.
C1_FundsInvariant == balance >= 0

\* a BUY was refused on an account already drawn down by earlier trades
C1_Witness ==
    /\ notice = "InsufficientFunds"
    /\ transactions # << >>
    /\ balance < StartingBalance
    /\ balance < call.price * call.qty

\* C2. Atomic rejection: a call that takes a failure path (a BUY the cash
\* does not cover, a SELL the position does not cover, any call answered
\* with an error) leaves cash, positions and log exactly as they were.
C2_AtomicRejection ==
    [][(/\ TradeStep
        /\ \/ notice' \in Errors
           \/ call'.action = "BUY"
                 /\ balance < call'.price * call'.qty
           \/ call'.action = "SELL"
                 /\ (call'.symbol \notin DOMAIN portfolio
                        \/ portfolio[call'.symbol].qty < call'.qty))
       => /\ balance' = balance
          /\ portfolio' = portfolio
          /\ transactions' = transactions]_vars

\* a SELL of a held symbol was refused on an account with cash spent,
\* a position open and a non-empty log
C2_Witness ==
    /\ notice = "InsufficientShares"
    /\ call.symbol \in DOMAIN portfolio
    /\ Len(transactions) >= 2
    /\ balance # StartingBalance

\* C3. Quantity invariant: every symbol present in the positions map has a
\* quantity above zero; no entry is left at zero and none goes negative.
C3_QuantityInvariant ==
    \A s \in DOMAIN portfolio : portfolio[s].qty > 0

\* a SELL has just closed one position while another stays open
C3_Witness ==
    /\ call.action = "SELL"
    /\ notice = "Success"
    /\ call.symbol \notin DOMAIN portfolio
    /\ portfolio # EmptyPortfolio

\* C4. A BUY is refused for insufficient funds exactly when the balance is
\* below cost = price * quantity; otherwise (balance = cost included) it
\* succeeds, takes exactly cost off the balance and appends a BUY
\* transaction whose signed total is -cost.
C4_BuyOutcome ==
    [][call'.action = "BUY" =>
          LET cost == call'.price * call'.qty
          IN  IF balance < cost
              THEN /\ notice' = "InsufficientFunds"
                   /\ balance' = balance
                   /\ transactions' = transactions
              ELSE /\ notice' = "Success"
                   /\ balance' = balance - cost
                   /\ transactions' = Append(transactions,
                         [Type |-> "BUY", Symbol |-> call'.symbol,
                          Price |-> call'.price, Qty |-> call'.qty,
                          Total |-> 0 - cost])]_vars

\* a BUY costing exactly the whole balance went through and left zero
C4_Witness ==
    /\ call.action = "BUY"
    /\ notice = "Success"
    /\ balance = 0
    /\ transactions[Len(transactions)].Total = 0 - StartingBalance

\* C5. A SELL of q is refused for insufficient shares exactly when the
\* symbol has no position or holds fewer than q; otherwise it succeeds,
\* adds revenue = price * q to the balance, takes q off the position and
\* appends a SELL transaction whose signed total is +revenue.
C5_SellOutcome ==
    [][call'.action = "SELL" =>
          LET s       == call'.symbol
              q       == call'.qty
              revenue == call'.price * q
          IN  IF s \notin DOMAIN portfolio \/ portfolio[s].qty < q
              THEN /\ notice' = "InsufficientShares"
                   /\ balance' = balance
                   /\ portfolio' = portfolio
                   /\ transactions' = transactions
              ELSE /\ notice' = "Success"
                   /\ balance' = balance + revenue
                   /\ IF s \in DOMAIN portfolio'
                      THEN portfolio'[s].qty = portfolio[s].qty - q
                      ELSE portfolio[s].qty - q = 0
                   /\ transactions' = Append(transactions,
                         [Type |-> "SELL", Symbol |-> s,
                          Price |-> call'.price, Qty |-> q,
                          Total |-> revenue])]_vars

\* a SELL of the whole position went through right after a BUY
C5_Witness ==
    /\ call.action = "SELL"
    /\ notice = "Success"
    /\ Len(transactions) = 2
    /\ transactions[1].Symbol = call.symbol
    /\ transactions[1].Qty = call.qty
    /\ portfolio = EmptyPortfolio

Abs (x) == IF x < 0 THEN 0 - x ELSE x

\* what a filled BUY does to the position it buys into
C6_BuyStep ==
    (call'.action = "BUY" /\ notice' = "Success") =>
        LET s == call'.symbol
            q == call'.qty
            p == call'.price
        IN  /\ s \in DOMAIN portfolio'
            /\ IF s \in DOMAIN portfolio
               THEN LET num == portfolio[s].avg_price * portfolio[s].qty
                                  + p * q
                        den == portfolio[s].qty + q
                    IN  /\ portfolio'[s].qty = den
                        /\ 2 * Abs(portfolio'[s].avg_price * den - num)
                              <= Cent * den
               ELSE portfolio'[s] = [qty |-> q, avg_price |-> p]

\* BUY 10 @ 100.00 then BUY 10 @ 200.00 of one symbol
C6_Example ==
    \A s \in Symbols :
        transactions =
            << [Type |-> "BUY", Symbol |-> s, Price |-> 100000, Qty |-> 10,
                Total |-> 0 - 1000000],
               [Type |-> "BUY", Symbol |-> s, Price |-> 200000, Qty |-> 10,
                Total |-> 0 - 2000000] >>
        => portfolio[s] = [qty |-> 20, avg_price |-> 150000]

\* C6. Weighted-average cost basis: a filled BUY of q at p on a symbol held
\* as (old_qty, old_avg) leaves quantity old_qty + q and an average price
\* that is (old_avg * old_qty + p * q) / (old_qty + q) to the nearest cent;
\* on a symbol not held it opens the position (q, p).  BUY 10 @ 100.00 then
\* BUY 10 @ 200.00 of one symbol gives quantity 20 at 150.00.
C6_WeightedAverage == []C6_Example /\ [][C6_BuyStep]_vars

\* a second BUY has averaged into a held position at a price that differs
\* from both fills
C6_Witness ==
    /\ Len(transactions) = 2
    /\ transactions[1].Type = "BUY"
    /\ transactions[2].Type = "BUY"
    /\ transactions[1].Symbol = transactions[2].Symbol
    /\ transactions[1].Qty # transactions[2].Qty
    /\ portfolio[transactions[1].Symbol].avg_price # transactions[1].Price
    /\ portfolio[transactions[1].Symbol].avg_price # transactions[2].Price

\* C7. Frame condition: a filled SELL keeps the average price of the
\* position it sells from while that position remains, and a call on one
\* symbol, filled or refused, changes neither the presence nor the
\* quantity nor the average price of any other symbol's position.
C7_TradeFrame ==
    [][TradeStep =>
          /\ \A t \in Symbols \ {call'.symbol} :
                /\ (t \in DOMAIN portfolio') = (t \in DOMAIN portfolio)
                /\ t \in DOMAIN portfolio => portfolio'[t] = portfolio[t]
          /\ (/\ call'.action = "SELL"
              /\ notice' = "Success"
              /\ call'.symbol \in DOMAIN portfolio')
             => portfolio'[call'.symbol].avg_price
                   = portfolio[call'.symbol].avg_price]_vars

\* part of a position was sold at a price away from its cost basis while
\* another symbol is held
C7_Witness ==
    /\ call.action = "SELL"
    /\ notice = "Success"
    /\ call.symbol \in DOMAIN portfolio
    /\ portfolio[call.symbol].avg_price # call.price
    /\ Cardinality(DOMAIN portfolio) = 2

\* the transaction a call with arguments c has to log
CallTx (c) ==
    [Type |-> c.action, Symbol |-> c.symbol, Price |-> c.price,
     Qty |-> c.qty,
     Total |-> IF c.action = "BUY" THEN 0 - c.price * c.qty
               ELSE c.price * c.qty]

\* C8. Atomic pairing, append-only log: a call that changes the balance or
\* the positions appends exactly one transaction, the record of that call
\* (action, symbol, rounded price, quantity, signed total); a call that
\* changes neither appends nothing; the old log stays a prefix of the new.
C8_AtomicPairing ==
    [][TradeStep =>
          /\ (balance' # balance \/ portfolio' # portfolio)
                => transactions' = Append(transactions, CallTx(call'))
          /\ (balance' = balance /\ portfolio' = portfolio)
                => transactions' = transactions
          /\ Len(transactions') >= Len(transactions)
          /\ SubSeq(transactions', 1, Len(transactions)) = transactions]_vars

\* a filled call has extended a log that already held a BUY and a SELL
C8_Witness ==
    /\ notice = "Success"
    /\ Len(transactions) >= 3
    /\ transactions[1].Type = "BUY"
    /\ transactions[2].Type = "SELL"
    /\ transactions[Len(transactions)] = CallTx(call)

\* what a SELL of the whole held quantity does to the positions map
C9_SellAllStep ==
    (/\ call'.action = "SELL"
     /\ notice' = "Success"
     /\ call'.symbol \in DOMAIN portfolio
     /\ portfolio[call'.symbol].qty = call'.qty)
    => call'.symbol \notin DOMAIN portfolio'

\* a symbol bought, sold out and bought again, alone in the log
C9_Reopened ==
    (/\ Len(transactions) = 3
     /\ transactions[1].Type = "BUY"
     /\ transactions[2].Type = "SELL"
     /\ transactions[3].Type = "BUY"
     /\ transactions[2].Symbol = transactions[1].Symbol
     /\ transactions[3].Symbol = transactions[1].Symbol
     /\ transactions[2].Qty = transactions[1].Qty)
    => portfolio = [s \in {transactions[1].Symbol} |->
                       [qty |-> transactions[3].Qty,
                        avg_price |-> transactions[3].Price]]

\* BUY 5 @ 50.00 then SELL 5 @ 60.00 of one symbol
C9_Example ==
    \A s \in Symbols :
        transactions =
            << [Type |-> "BUY", Symbol |-> s, Price |-> 50000, Qty |-> 5,
                Total |-> 0 - 250000],
               [Type |-> "SELL", Symbol |-> s, Price |-> 60000, Qty |-> 5,
                Total |-> 300000] >>
        => /\ s \notin DOMAIN portfolio
           /\ balance = StartingBalance - 250000 + 300000

\* C9. Full liquidation discards the cost basis: a SELL of the whole held
\* quantity takes the symbol out of the positions map, and a later BUY of
\* the symbol at p opens it again at average price p whatever the earlier
\* average was.  BUY 5 @ 50.00 then SELL 5 @ 60.00 from the starting
\* balance leaves no position and StartingBalance - 250.00 + 300.00.
C9_FullLiquidation ==
    /\ [](C9_Example /\ C9_Reopened)
    /\ [][C9_SellAllStep]_vars

\* a symbol bought, sold out at another price and bought again at a third
C9_Witness ==
    /\ Len(transactions) = 3
    /\ transactions[1].Type = "BUY"
    /\ transactions[2].Type = "SELL"
    /\ transactions[3].Type = "BUY"
    /\ transactions[2].Symbol = transactions[1].Symbol
    /\ transactions[3].Symbol = transactions[1].Symbol
    /\ transactions[2].Qty = transactions[1].Qty
    /\ transactions[3].Price # transactions[1].Price
    /\ transactions[3].Price # transactions[2].Price
    /\ portfolio[transactions[3].Symbol].avg_price = transactions[3].Price

\* C10. Reset: from whatever state it is pressed in, the reset leaves the
\* initial account (100000.00 in cash, no positions, empty log); pressed
\* again on a reset account it changes nothing.
C10_Reset ==
    [][call'.action = "RESET" =>
          /\ balance' = StartingBalance
          /\ portfolio' = EmptyPortfolio
          /\ transactions' = << >>
          /\ call.action = "RESET"
                => /\ balance' = balance
                   /\ portfolio' = portfolio
                   /\ transactions' = transactions]_vars

\* the account as a reset has left it
C10_Witness ==
    /\ call.action = "RESET"
    /\ notice = "None"
    /\ balance = StartingBalance
    /\ portfolio = EmptyPortfolio
    /\ transactions = << >>

\* an amount in mills that is a whole number of cents
WholeCents (x) == x % Cent = 0

\* C14. Two-decimal discipline: whatever prices are quoted, the balance,
\* every position's average price and every logged price and signed total
\* are whole numbers of cents.
C14_TwoDecimals ==
    /\ WholeCents(balance)
    /\ \A s \in DOMAIN portfolio : WholeCents(portfolio[s].avg_price)
    /\ \A i \in 1..Len(transactions) :
          /\ WholeCents(transactions[i].Price)
          /\ WholeCents(transactions[i].Total)

\* a quote that is not a whole number of cents was filled as a BUY into a
\* held position, whose average had to be rounded
C14_Witness ==
    /\ call.action = "BUY"
    /\ notice = "Success"
    /\ ~WholeCents(call.quote)
    /\ call.symbol \in DOMAIN portfolio
    /\ portfolio[call.symbol].qty > call.qty
    /\ portfolio[call.symbol].avg_price # call.price
    /\ Len(transactions) = 2
    /\ (transactions[1].Price * transactions[1].Qty
           + transactions[2].Price * transactions[2].Qty)
          % (Cent * portfolio[call.symbol].qty) # 0

RECURSIVE SumTotals(_)
\* the signed totals of a log, added up
SumTotals (log) ==
    IF log = << >> THEN 0
    ELSE log[Len(log)].Total + SumTotals(SubSeq(log, 1, Len(log) - 1))

\* C16. Cash conservation: the balance is the starting balance plus the
\* signed totals of all transactions logged since the last reset.
C16_CashConservation ==
    balance = StartingBalance + SumTotals(transactions)

\* cash has gone out on a BUY and come back on a SELL at another price
C16_Witness ==
    /\ Len(transactions) >= 2
    /\ \E i, j \in 1..Len(transactions) :
          /\ transactions[i].Type = "BUY"
          /\ transactions[j].Type = "SELL"
          /\ transactions[i].Price # transactions[j].Price
    /\ balance > StartingBalance

RECURSIVE NetQty(_, _)
\* quantity of symbol bought minus quantity sold over a log
NetQty (log, symbol) ==
    IF log = << >> THEN 0
    ELSE LET t == log[Len(log)]
             d == IF t.Symbol # symbol THEN 0
                  ELSE IF t.Type = "BUY" THEN t.Qty ELSE 0 - t.Qty
         IN  d + NetQty(SubSeq(log, 1, Len(log) - 1), symbol)

\* C17. Log/position consistency: for every symbol the logged BUY quantity
\* minus the logged SELL quantity is the position's quantity when the
\* symbol is held, and is 0 exactly when the symbol is not held.
C17_LogPositionConsistency ==
    \A s \in Symbols :
        /\ s \in DOMAIN portfolio
              => NetQty(transactions, s) = portfolio[s].qty
        /\ (NetQty(transactions, s) = 0) = (s \notin DOMAIN portfolio)

\* a symbol bought twice and partly sold is still held
C17_Witness ==
    \E s \in DOMAIN portfolio :
        /\ Len(transactions) = 3
        /\ \A i \in 1..3 : transactions[i].Symbol = s
        /\ transactions[1].Type = "BUY"
        /\ transactions[2].Type = "BUY"
        /\ transactions[3].Type = "SELL"
        /\ portfolio[s].qty < transactions[1].Qty + transactions[2].Qty

\* the last point of the log at which symbol was not held
LastFlat (symbol) ==
    CHOOSE i \in 0..Len(transactions) :
        /\ NetQty(SubSeq(transactions, 1, i), symbol) = 0
        /\ \A j \in (i + 1)..Len(transactions) :
              NetQty(SubSeq(transactions, 1, j), symbol) # 0

\* the prices of the BUYs of symbol filled since its position was opened
OpenFills (symbol) ==
    {transactions[i].Price :
        i \in {j \in (LastFlat(symbol) + 1)..Len(transactions) :
                  /\ transactions[j].Symbol = symbol
                  /\ transactions[j].Type = "BUY"}}

\* C19. Cost basis stays within fill prices: the average price of a held
\* symbol is no lower than the lowest and no higher than the highest price
\* of the BUYs filled since its position was last opened.
C19_AverageWithinFills ==
    \A s \in DOMAIN portfolio :
        /\ \E p \in OpenFills(s) : p <= portfolio[s].avg_price
        /\ \E p \in OpenFills(s) : portfolio[s].avg_price <= p

\* a position bought, partly sold and bought again at another price holds
\* an average strictly between its two fills
C19_Witness ==
    \E s \in DOMAIN portfolio :
        /\ Len(transactions) = 3
        /\ \A i \in 1..3 : transactions[i].Symbol = s
        /\ transactions[1].Type = "BUY"
        /\ transactions[2].Type = "SELL"
        /\ transactions[3].Type = "BUY"
        /\ \E p \in OpenFills(s) : p < portfolio[s].avg_price
        /\ \E p \in OpenFills(s) : portfolio[s].avg_price < p

\* ------------------------------------------------- properties of a run
\* the last run priced the held symbol s from a live quote: the chart close
\* for the selected ticker, a delivered batch close for any other
LivePriced (s) ==
    IF s = feed.ticker THEN feed.chartOK
    ELSE feed.batchOK /\ s \in DOMAIN feed.prices

\* the live quote the last run had for s
LivePrice (s) == IF s = feed.ticker THEN feed.close ELSE feed.prices[s]

\* C11. Valuation fallback without failure: whatever the account holds and
\* whatever the provider answers, the valuation runs to its end without an
\* error, and every held symbol without a live price is valued at its
\* stored average price.
C11_ValuationFallback ==
    /\ view.valuation # "Error"
    /\ view.valuation = "Table" =>
          \A s \in DOMAIN portfolio :
              ~LivePriced(s)
                 => view.rows[s].CurrentPrice = portfolio[s].avg_price

RECURSIVE LiveEquity(_)
\* the held quantities of syms at their live quotes
LiveEquity (syms) ==
    IF syms = {} THEN 0
    ELSE LET s == CHOOSE x \in syms : TRUE
         IN  LivePrice(s) * portfolio[s].qty + LiveEquity(syms \ {s})

\* C12. Net worth composition: when every held symbol has a live price,
\* the net worth reported is the cash balance plus, over the held symbols,
\* live price times quantity; with one held symbol, C + P * Q.
C12_NetWorth ==
    (/\ view.valuation = "Table"
     /\ \A s \in DOMAIN portfolio : LivePriced(s))
    => view.net_worth = balance + LiveEquity(DOMAIN portfolio)

\* two symbols valued live, one at the chart close and one at a batch
\* close, both away from their cost basis, with cash already spent
C12_Witness ==
    /\ view.valuation = "Table"
    /\ Cardinality(DOMAIN portfolio) = 2
    /\ \A s \in DOMAIN portfolio :
          LivePriced(s) /\ LivePrice(s) # portfolio[s].avg_price
    /\ view.net_worth # balance
    /\ view.net_worth # StartingBalance

\* C13. Degraded valuation is flagged: a row priced at the average-price
\* fallback is marked as such, or the valuation as a whole is.
C13_DegradedFlagged ==
    view.valuation = "Table" =>
        \A s \in DOMAIN view.rows :
            ~LivePriced(s)
               => \/ "Degraded" \in DOMAIN view.rows[s]
                  \/ "DegradedValuation" \in view.messages

\* C15. Read-only refresh: a run in which no button is pressed, and a run
\* with BUY or SELL pressed in which no chart series comes back, leave
\* balance, positions and log as they were, whatever the provider answers.
C15_ReadOnlyRefresh ==
    [][(\/ view'.event = "Refresh"
        \/ view'.event \in {"BUY", "SELL"} /\ ~feed'.chartOK)
       => /\ balance' = balance
          /\ portfolio' = portfolio
          /\ transactions' = transactions]_vars

\* a trade button was pressed on an account with a position, and the run
\* it started got no chart series
C15_Witness ==
    /\ view.event \in {"BUY", "SELL"}
    /\ ~feed.chartOK
    /\ ~view.panel
    /\ portfolio # EmptyPortfolio
    /\ transactions # << >>

\* C18. Consistent snapshot per render: in a run that reaches its end, the
\* cash in the sidebar, the positions in the Portfolio tab and the log in
\* the History tab are those of the account as the run leaves it.
C18_ConsistentSnapshot ==
    view.valuation \in {"Empty", "Table"} =>
        /\ view.cash = balance
        /\ DOMAIN view.rows = DOMAIN portfolio
        /\ \A s \in DOMAIN portfolio :
              /\ view.rows[s].Qty = portfolio[s].qty
              /\ view.rows[s].AvgCost = portfolio[s].avg_price
        /\ view.history = Reverse(transactions)
====
